---- MODULE Spec2Model ----
(***************************************************************************)
(* A model of two React components of the ListenBrainz front end:          *)
(*   - UserSearch   (frontend/js/src/common/UserSearch.tsx)                 *)
(*   - Data + Panel (frontend/js/src/explore/artist-similarity/Data.tsx)    *)
(* Component state hooks are variables; every event handler, promise        *)
(* continuation and timer callback is one action, which includes the        *)
(* re-render and the effects React runs before the next event.              *)
(***************************************************************************)
EXTENDS Integers, Sequences, FiniteSets, TLC

----------------------------------------------------------------------------
(* Bounds of the model *)

\* clock ticks the model lets pass in the search widget
MaxTicks == 3
\* search requests the widget may dispatch in one behaviour
MaxDispatch == 2
\* selection callbacks recorded in one behaviour
MaxSelects == 1
\* similarity requests the Explorer may issue in one behaviour
MaxFetches == 2
\* largest similarity limit the search box is given, besides the default
MaxLimit == 1
\* track lists the panel may report upward in one behaviour
MaxReports == 1
\* requests a page showing both the widget and the Explorer may send in all
MaxRequests == 2

----------------------------------------------------------------------------
(* Program constants *)

\* UserSearch.tsx:44, the wait handed to lodash throttle, in milliseconds
THROTTLE_WAIT == 300

\* Data.tsx:12, the artist the Explorer starts with
ARTIST_MBID == "8f6bd1e4-fbe1-4f50-aa9b-94c450ec0f11"

\* Data.tsx:13, the limit the Explorer starts with
SIMILAR_ARTISTS_LIMIT_VALUE == 18

\* the model's clock step: a third of the throttle window
TickMs == THROTTLE_WAIT \div 3

\* JavaScript's undefined / null for an optional string
Undefined == "undefined"

\* JavaScript truthiness of an optional string
Truthy(s) == s # Undefined /\ s # ""

----------------------------------------------------------------------------
(* Inputs of the search widget *)

\* user names the search API may return
UserNames == {"al", "bo"}

\* values the text input may take by typing
Texts == {"", "a", "al"}

\* props.initialValue ?? ""
InitialValues == {"", "al"}

\* response.users of APIService.searchUsers
UserLists == {<<>>, <<"al">>, <<"al", "bo">>}

----------------------------------------------------------------------------
(* Inputs of the Explorer and of the panel *)

\* artist identifiers the search box and the graph may select
MBIDs == {ARTIST_MBID, "mbid-b"}

\* an ArtistType row of the similarity API (type and the score fields are
\* passed through and play no part here)
Artist(m) == [artist_mbid |-> m, name |-> "name of " \o m]

\* mainArtist before any response: useState<ArtistType>() is undefined
NoArtist == [artist_mbid |-> Undefined, name |-> Undefined]

\* response entries: {type: "dataset", data: rows} and {type: "markup", ...};
\* the markup entry carries a row of its own, which no state may ever show
Dataset(rows) == [type |-> "dataset", data |-> rows]
Markup == [type |-> "markup", data |-> <<Artist("markup")>>]

\* the data of the second dataset entry
SimilarLists == {<<>>, <<Artist("mbid-b"), Artist("mbid-c")>>}

\* the JSON arrays the similarity API may answer a request for artist m with
Responses(m) ==
    {<<>>, <<Markup>>, <<Dataset(<<Artist(m)>>)>>,
     <<Markup, Dataset(<<Artist(m)>>)>>}
    \cup {<<Dataset(<<Artist(m)>>), Dataset(l)>> : l \in SimilarLists}
    \cup {<<Markup, Dataset(<<Artist(m)>>), Markup, Dataset(l)>> :
              l \in SimilarLists}
    \cup {<<Dataset(<<>>), Dataset(l)>> : l \in SimilarLists}

\* values of the limit input
Limits == (0 .. MaxLimit) \cup {SIMILAR_ARTISTS_LIMIT_VALUE}

\* Math.random() * 360, as whole degrees
Hues == {0, 300}

\* artistInfo.topTrack === null
NoTrack == [release_mbid |-> Undefined, release_name |-> Undefined,
            recording_mbid |-> Undefined, recording_name |-> Undefined]

\* a RecordingType of artist m with recording name rn (the cover art fields
\* are only rendered)
Track(m, rn) == [release_mbid |-> "release mbid of " \o m,
                 release_name |-> "release of " \o m,
                 recording_mbid |-> "recording mbid of " \o m,
                 recording_name |-> rn]

\* the topTrack infoLookup may resolve to for artist m
TopTracks(m) ==
    {NoTrack, Track(m, "recording of " \o m), Track(m, Undefined), Track(m, "")}

\* useState<ArtistInfoType | null>(null)
NoInfo == [name |-> Undefined, topTrack |-> NoTrack]

\* the cards of the panel, both wired to handleTrackChange
Cards == {"artist-top-album", "artist-top-track"}

\* useState<Array<Listen>>() is undefined
NoTracks == [defined |-> FALSE, value |-> <<>>]

----------------------------------------------------------------------------
VARIABLES
    \* ---- UserSearch
    widgetMounted,      \* the mount effects of UserSearch have run
    clearOnSelect,      \* props.clearOnSelect
    newUser,            \* useState(initialValue ?? "")
    userSearchResults,  \* useState<Array<SearchUser>>([]), as user names
    searches,           \* APIService.searchUsers calls in flight
    timers,             \* throttle instances whose timer is pending
    now,                \* the clock, in milliseconds
    dispatched,         \* history: every search request sent, with its time
    selected,           \* history: every call of props.onSelectUser
    afterSelect,        \* history: selected, and the text not typed in since
    \* ---- Data (the Explorer)
    explorerMounted,    \* the mount effects of Data have run
    artistMBID,         \* useState(ARTIST_MBID)
    similarArtistsLimit,        \* useState(SIMILAR_ARTISTS_LIMIT_VALUE)
    completeSimilarArtistsList, \* useState<Array<ArtistType>>([])
    similarArtistsList,         \* useState<Array<ArtistType>>([])
    mainArtist,         \* useState<ArtistType>()
    colors,             \* useState(colorGenerator)
    currentTracks,      \* useState<Array<Listen>>()
    fetches,            \* fetch(BASE_URL + artist_mbid) calls in flight
    issued,             \* history: the artist of every request sent, in order
    maxResolved,        \* history: the largest request id settled so far
    nSuccess,           \* history: responses processData has processed
    seedHue,            \* history: the hue colorGenerator drew
    \* ---- Panel
    artistInfo,         \* useState<ArtistInfoType | null>(null)
    panelInst,          \* how many times Panel has been mounted
    lookups,            \* infoLookup calls in flight
    reports,            \* history: calls of props.onTrackChange
    \* ---- the router over getIndexRoutes
    pending,            \* the branch matched by a navigation under way
    location,           \* the path of the page on screen
    page,               \* the component and loader of the page on screen
    \* ---- shared
    toasts,             \* react-toastify's active notifications
    lastOp              \* history: the handler that ran last

widgetVars == <<widgetMounted, clearOnSelect, newUser, userSearchResults,
                searches, timers, now, dispatched, selected, afterSelect>>

explorerVars == <<explorerMounted, artistMBID, similarArtistsLimit,
                  completeSimilarArtistsList, similarArtistsList, mainArtist,
                  colors, currentTracks, fetches, issued, maxResolved,
                  nSuccess, seedHue>>

panelVars == <<artistInfo, panelInst, lookups, reports>>

routerVars == <<pending, location, page>>

vars == <<widgetMounted, clearOnSelect, newUser, userSearchResults,
          searches, timers, now, dispatched, selected, afterSelect,
          explorerMounted, artistMBID, similarArtistsLimit,
          completeSimilarArtistsList, similarArtistsList, mainArtist,
          colors, currentTracks, fetches, issued, maxResolved,
          nSuccess, seedHue,
          artistInfo, panelInst, lookups, reports,
          toasts, lastOp,
          pending, location, page>>

\* the record lastOp holds: the handler, a request id, a text argument and,
\* for a similarity response, the response
OpR(op, id, text, resp) == [op |-> op, id |-> id, text |-> text, resp |-> resp]
Op(op, id, text) == OpR(op, id, text, <<>>)

----------------------------------------------------------------------------
(* react-toastify *)

\* a faulty variant of RaiseToast: the toastId is not honoured, every call adds a toast
RaiseToast_Stacking(ts, id, title) ==
    ts \cup {[toastId |-> id, title |-> title, calls |-> Cardinality(ts) + 1]}

\* a faulty variant of RaiseToast: only a toast of the same title is coalesced
RaiseToast_ByTitle(ts, id, title) ==
    IF \E t \in ts : t.toastId = id /\ t.title = title
    THEN {IF t.toastId = id /\ t.title = title
          THEN [t EXCEPT !.calls = t.calls + 1] ELSE t : t \in ts}
    ELSE ts \cup {[toastId |-> id, title |-> title, calls |-> 1]}

\* toast.error(<ToastMsg title=.../>, {toastId}): a toast whose id is already
\* active is not added a second time. calls is history: how many toast.error
\* calls the active toast stands for
RaiseToast(ts, id, title) ==
    IF \E t \in ts : t.toastId = id
    THEN {IF t.toastId = id THEN [t EXCEPT !.calls = t.calls + 1] ELSE t :
              t \in ts}
    ELSE ts \cup {[toastId |-> id, title |-> title, calls |-> 1]}

----------------------------------------------------------------------------
(* lodash throttle, as UserSearch uses it *)

\* _throttle(fn, 300): a new instance, no timer, no deferred call; query is
\* the newUser its searchUsers closure reads
ThrottleNew(q) == [timerAt |-> -1, pending |-> FALSE, query |-> q]

\* calling the throttled function at time t: with no timer running the call
\* goes through at once (leading edge) and a timer of THROTTLE_WAIT starts;
\* with a timer running the call is deferred to the timer (trailing edge)
ThrottleCall(th, t) ==
    IF th.timerAt < 0
    THEN [invoke |-> TRUE,
          th |-> [th EXCEPT !.timerAt = t + THROTTLE_WAIT, !.pending = FALSE]]
    ELSE [invoke |-> FALSE, th |-> [th EXCEPT !.pending = TRUE]]

\* the component body runs _throttle(...) on every render, so the effect of a
\* render calls an instance no earlier call has touched
throttledSearchUsers(q) == ThrottleNew(q)

\* APIService.searchUsers(newUser) is sent with the closure's newUser q while
\* the input shows the text typed: the request and its history record
Dispatch(q, typed) ==
    /\ searches' = searches \cup {[id |-> Len(dispatched) + 1, query |-> q]}
    /\ dispatched' = Append(dispatched,
                             [at |-> now, query |-> q, typed |-> typed])

\* a faulty variant of NewUserEffect: the empty-text guard of the effect is missing
NewUserEffect_NoEmptyGuard(q) ==
    LET r == ThrottleCall(throttledSearchUsers(q), now)
    IN  /\ timers' = timers \cup {r.th}
        /\ Dispatch(r.th.query, q)

\* the effect on [newUser]: nothing for an empty text, else one call of the
\* throttled search of this render
NewUserEffect(q) ==
    IF ~Truthy(q)
    THEN UNCHANGED <<searches, dispatched, timers>>
    ELSE LET r == ThrottleCall(throttledSearchUsers(q), now)
         IN  /\ timers' = timers \cup {r.th}
             /\ IF r.invoke
                THEN Dispatch(r.th.query, q)
                ELSE UNCHANGED <<searches, dispatched>>

\* whether the effect on [newUser] would send a request
WouldDispatch(q) == Truthy(q)

----------------------------------------------------------------------------
(* UserSearch: actions *)

\* first render committed: the effect on [newUser] runs for the initial value
MountWidget ==
    /\ ~widgetMounted
    /\ widgetMounted' = TRUE
    /\ WouldDispatch(newUser) => Len(dispatched) < MaxDispatch
    /\ NewUserEffect(newUser)
    /\ UNCHANGED afterSelect
    /\ lastOp' = Op("mountWidget", 0, "")
    /\ UNCHANGED <<clearOnSelect, newUser, userSearchResults, now,
                   selected, toasts>>
    /\ UNCHANGED <<explorerVars, panelVars, routerVars>>

\* <input onChange>: setNewUser(event.target.value), then the effect
OnChange(v) ==
    /\ widgetMounted
    /\ v # newUser
    /\ WouldDispatch(v) => Len(dispatched) < MaxDispatch
    /\ newUser' = v
    /\ NewUserEffect(v)
    /\ afterSelect' = FALSE
    /\ lastOp' = Op("change", 0, v)
    /\ UNCHANGED <<widgetMounted, clearOnSelect, userSearchResults, now,
                   selected, toasts>>
    /\ UNCHANGED <<explorerVars, panelVars, routerVars>>

\* a faulty variant of SelectedText: the clearOnSelect test is dropped
SelectedText_AlwaysClear(user) == ""

\* the text handleResultClick sets
SelectedText(user) == IF clearOnSelect THEN "" ELSE user

\* <select onChange>: handleResultClick(e.target.value); the effect runs when
\* the text changed
HandleResultClick(user) ==
    /\ widgetMounted
    /\ \E i \in DOMAIN userSearchResults : userSearchResults[i] = user
    /\ Len(selected) < MaxSelects
    /\ LET text == SelectedText(user)
       IN  /\ (text # newUser /\ WouldDispatch(text))
                  => Len(dispatched) < MaxDispatch
           /\ selected' = Append(selected, user)
           /\ newUser' = text
           /\ userSearchResults' = <<>>
           /\ IF text # newUser
              THEN NewUserEffect(text)
              ELSE UNCHANGED <<searches, dispatched, timers>>
    /\ afterSelect' = TRUE
    /\ lastOp' = Op("select", 0, user)
    /\ UNCHANGED <<widgetMounted, clearOnSelect, now, toasts>>
    /\ UNCHANGED <<explorerVars, panelVars, routerVars>>

\* searchUsers: the awaited response arrives, setUserSearchResults(response.users)
SearchResolve(s, users) ==
    /\ s \in searches
    /\ searches' = searches \ {s}
    /\ userSearchResults' = users
    /\ UNCHANGED afterSelect
    /\ lastOp' = OpR("searchResolve", s.id, "", users)
    /\ UNCHANGED <<widgetMounted, clearOnSelect, newUser, timers, now,
                   dispatched, selected, toasts>>
    /\ UNCHANGED <<explorerVars, panelVars, routerVars>>

\* a faulty variant of SearchFail: the catch also empties the result list
SearchFail_ClearsResults(s) ==
    /\ s \in searches
    /\ searches' = searches \ {s}
    /\ userSearchResults' = <<>>
    /\ toasts' = RaiseToast(toasts, "error", "Error")
    /\ UNCHANGED afterSelect
    /\ lastOp' = Op("searchFail", s.id, "")
    /\ UNCHANGED <<widgetMounted, clearOnSelect, newUser, timers, now,
                   dispatched, selected>>
    /\ UNCHANGED <<explorerVars, panelVars, routerVars>>

\* searchUsers: the awaited call rejects, the catch raises the toast
SearchFail(s) ==
    /\ s \in searches
    /\ searches' = searches \ {s}
    /\ toasts' = RaiseToast(toasts, "error", "Error")
    /\ UNCHANGED afterSelect
    /\ lastOp' = Op("searchFail", s.id, "")
    /\ UNCHANGED <<widgetMounted, clearOnSelect, newUser, userSearchResults,
                   timers, now, dispatched, selected>>
    /\ UNCHANGED <<explorerVars, panelVars, routerVars>>

\* a throttle timer expires: the deferred call, if one was made, goes through
TimerExpired(th) ==
    /\ th \in timers
    /\ th.timerAt <= now
    /\ timers' = timers \ {th}
    /\ th.pending => Len(dispatched) < MaxDispatch
    /\ IF th.pending
       THEN Dispatch(th.query, newUser)
       ELSE UNCHANGED <<searches, dispatched>>
    /\ UNCHANGED afterSelect
    /\ lastOp' = Op("timer", 0, "")
    /\ UNCHANGED <<widgetMounted, clearOnSelect, newUser, userSearchResults,
                   now, selected, toasts>>
    /\ UNCHANGED <<explorerVars, panelVars, routerVars>>

\* time passes; a due timer fires before the clock moves on
Tick ==
    /\ widgetMounted
    /\ now < MaxTicks * TickMs
    /\ \A th \in timers : th.timerAt > now
    /\ now' = now + TickMs
    /\ UNCHANGED afterSelect
    /\ lastOp' = Op("tick", 0, "")
    /\ UNCHANGED <<widgetMounted, clearOnSelect, newUser, userSearchResults,
                   searches, timers, dispatched, selected, toasts>>
    /\ UNCHANGED <<explorerVars, panelVars, routerVars>>

\* a notification closes (autoClose or the user's click)
DismissToast ==
    /\ toasts # {}
    /\ \E t \in toasts : toasts' = toasts \ {t}
    /\ lastOp' = Op("dismiss", 0, "")
    /\ UNCHANGED <<widgetVars, explorerVars, panelVars, routerVars>>

----------------------------------------------------------------------------
(* tinycolor2, as Data uses it *)

\* tinycolor(`hsv(h, 100%, 90%)`)
Color(h) == [h |-> h, s |-> 100, v |-> 90]

\* tinycolor's tetrad(): the colour and the three a quarter turn of hue apart
tetrad(c) ==
    <<c,
      [c EXCEPT !.h = (c.h + 90) % 360],
      [c EXCEPT !.h = (c.h + 180) % 360],
      [c EXCEPT !.h = (c.h + 270) % 360]>>

\* colorGenerator, with the hue Math.random() * 360 gave; JavaScript's
\* tetrad()[1] is the second element
colorGenerator(h) == <<Color(h), tetrad(Color(h))[2]>>

\* a faulty variant of RotateColors: the updater rotates from the first colour
RotateColors_FromFirst(prevColors) == <<prevColors[1], tetrad(prevColors[1])[2]>>

\* a faulty variant of RotateColors: the updater swaps the two colours
RotateColors_Swap(prevColors) == <<prevColors[2], prevColors[1]>>

\* the updater handed to setColors
RotateColors(prevColors) == <<prevColors[2], tetrad(prevColors[2])[2]>>

----------------------------------------------------------------------------
(* Data: processData and the re-slice effect *)

\* a faulty variant of isDatasetResponse: the type guard lets every entry through
isDatasetResponse_Any(response) == TRUE

\* the type guard of processData
isDatasetResponse(response) == response.type = "dataset"

\* dataResponse.filter(isDatasetResponse)
FilterDatasets(dataResponse) == SelectSeq(dataResponse, isDatasetResponse)

\* artistsData[0]?.data[0]: undefined when the first dataset has no row
MainArtistOf(artistsData) ==
    IF Len(artistsData[1].data) > 0 THEN artistsData[1].data[1] ELSE NoArtist

\* artistsData[1]?.data ?? []
CompleteListOf(artistsData) ==
    IF Len(artistsData) >= 2 THEN artistsData[2].data ELSE <<>>

\* a faulty variant of Slice: the limit is ignored
Slice_WholeList(list, limit) == list

\* list.slice(0, limit) for a limit >= 0
Slice(list, limit) ==
    SubSeq(list, 1, IF limit < Len(list) THEN limit ELSE Len(list))

\* currentTracks ?? [], the listens handed to BrainzPlayer
PlayerListens == IF currentTracks.defined THEN currentTracks.value ELSE <<>>

----------------------------------------------------------------------------
(* Panel *)

\* Panel is rendered: {mainArtist && <Panel artist={mainArtist} .../>}
PanelMounted == mainArtist # NoArtist

\* the panel's output is non-empty: Data renders a Panel and `artistInfo &&`
PanelRenders == PanelMounted /\ artistInfo # NoInfo

\* the panel shows its cards: artistInfo && artistInfo.topTrack
CardsShown == PanelMounted /\ artistInfo # NoInfo /\ artistInfo.topTrack # NoTrack

\* a faulty variant of NewTrack: the artist name is read from artistInfo
NewTrack_NameFromInfo ==
    [listened_at |-> 0,
     track_metadata |->
         [artist_name |-> artistInfo.name,
          track_name |-> artistInfo.topTrack.recording_name,
          release_name |-> artistInfo.topTrack.release_name,
          release_mbid |-> artistInfo.topTrack.release_mbid,
          recording_mbid |-> artistInfo.topTrack.recording_mbid]]

\* the Listen handleTrackChange builds
NewTrack ==
    [listened_at |-> 0,
     track_metadata |->
         [artist_name |-> mainArtist.name,
          track_name |-> artistInfo.topTrack.recording_name,
          release_name |-> artistInfo.topTrack.release_name,
          release_mbid |-> artistInfo.topTrack.release_mbid,
          recording_mbid |-> artistInfo.topTrack.recording_mbid]]

\* what a render of Data with a new mainArtist does to the panel: undefined
\* unmounts it; an artist mounts it if need be, and its effect on [artist]
\* starts infoLookup(artist.artist_mbid) with id as the request's number
PanelOnArtist(artist, id) ==
    IF artist = NoArtist
    THEN /\ artistInfo' = NoInfo
         /\ UNCHANGED <<panelInst, lookups>>
    ELSE LET inst == IF PanelMounted THEN panelInst ELSE panelInst + 1
         IN  /\ panelInst' = inst
             /\ artistInfo' = (IF PanelMounted THEN artistInfo ELSE NoInfo)
             /\ lookups' = lookups \cup
                    {[id |-> id, inst |-> inst, artist |-> artist]}

----------------------------------------------------------------------------
(* Data: actions *)

\* a faulty variant of FetchData: a new request aborts the ones in flight
FetchData_AbortPrevious(artist_mbid) ==
    /\ fetches' = {[id |-> Len(issued) + 1, artist_mbid |-> artist_mbid]}
    /\ issued' = Append(issued, artist_mbid)

\* fetchData(artist_mbid) up to its first await: the request is sent
FetchData(artist_mbid) ==
    /\ fetches' = fetches \cup
           {[id |-> Len(issued) + 1, artist_mbid |-> artist_mbid]}
    /\ issued' = Append(issued, artist_mbid)

\* first render committed: the effect on [artistMBID, fetchData] fetches, the
\* re-slice effect sets the displayed list to a slice of the empty list
MountExplorer ==
    /\ ~explorerMounted
    /\ explorerMounted' = TRUE
    /\ FetchData(artistMBID)
    /\ similarArtistsList' = Slice(completeSimilarArtistsList, similarArtistsLimit)
    /\ lastOp' = Op("mountExplorer", 0, "")
    /\ UNCHANGED <<artistMBID, similarArtistsLimit, completeSimilarArtistsList,
                   mainArtist, colors, currentTracks, maxResolved, nSuccess,
                   seedHue, toasts>>
    /\ UNCHANGED <<widgetVars, panelVars, routerVars>>

\* onArtistChange={setArtistMBID} of the search box and of the graph: a new
\* identifier re-runs the effect on [artistMBID, fetchData], the current one
\* changes nothing
SelectArtist(m) ==
    /\ explorerMounted
    /\ m # artistMBID => Len(issued) < MaxFetches
    /\ artistMBID' = m
    /\ IF m # artistMBID
       THEN FetchData(m)
       ELSE UNCHANGED <<fetches, issued>>
    /\ lastOp' = Op("selectArtist", 0, m)
    /\ UNCHANGED <<explorerMounted, similarArtistsLimit,
                   completeSimilarArtistsList, similarArtistsList, mainArtist,
                   colors, currentTracks, maxResolved, nSuccess, seedHue, toasts>>
    /\ UNCHANGED <<widgetVars, panelVars, routerVars>>

\* a faulty variant of ChangeLimit: a new limit also sends a request
ChangeLimit_Refetch(limit) ==
    /\ explorerMounted
    /\ limit # similarArtistsLimit
    /\ Len(issued) < MaxFetches
    /\ similarArtistsLimit' = limit
    /\ similarArtistsList' = Slice(completeSimilarArtistsList, limit)
    /\ FetchData(artistMBID)
    /\ lastOp' = Op("changeLimit", limit, "")
    /\ UNCHANGED <<explorerMounted, artistMBID, completeSimilarArtistsList,
                   mainArtist, colors, currentTracks,
                   maxResolved, nSuccess, seedHue, toasts>>
    /\ UNCHANGED <<widgetVars, panelVars, routerVars>>

\* onSimilarArtistsLimitChange={setSimilarArtistsLimit}, then the re-slice
\* effect on [completeSimilarArtistsList, similarArtistsLimit]
ChangeLimit(limit) ==
    /\ explorerMounted
    /\ limit # similarArtistsLimit
    /\ similarArtistsLimit' = limit
    /\ similarArtistsList' = Slice(completeSimilarArtistsList, limit)
    /\ lastOp' = Op("changeLimit", limit, "")
    /\ UNCHANGED <<explorerMounted, artistMBID, completeSimilarArtistsList,
                   mainArtist, colors, currentTracks, fetches, issued,
                   maxResolved, nSuccess, seedHue, toasts>>
    /\ UNCHANGED <<widgetVars, panelVars, routerVars>>

\* a faulty variant of processData: a response without datasets resets the view
processData_ResetOnEmpty(dataResponse) ==
    LET artistsData == FilterDatasets(dataResponse)
    IN  /\ IF Len(artistsData) > 0
           THEN /\ mainArtist' = MainArtistOf(artistsData)
                /\ completeSimilarArtistsList' = CompleteListOf(artistsData)
                /\ similarArtistsList' =
                       Slice(CompleteListOf(artistsData), similarArtistsLimit)
                /\ PanelOnArtist(MainArtistOf(artistsData), nSuccess + 1)
           ELSE /\ mainArtist' = mainArtist
                /\ completeSimilarArtistsList' = <<>>
                /\ similarArtistsList' = <<>>
                /\ UNCHANGED <<artistInfo, panelInst, lookups>>
        /\ colors' = RotateColors(colors)

\* processData(dataResponse), then the render it causes: the re-slice effect
\* for a new complete list and the panel's effect for a new main artist
processData(dataResponse) ==
    LET artistsData == FilterDatasets(dataResponse)
    IN  /\ IF Len(artistsData) > 0
           THEN /\ mainArtist' = MainArtistOf(artistsData)
                /\ completeSimilarArtistsList' = CompleteListOf(artistsData)
                /\ similarArtistsList' =
                       Slice(CompleteListOf(artistsData), similarArtistsLimit)
                /\ PanelOnArtist(MainArtistOf(artistsData), nSuccess + 1)
           ELSE UNCHANGED <<mainArtist, completeSimilarArtistsList,
                            similarArtistsList, artistInfo, panelInst, lookups>>
        /\ colors' = RotateColors(colors)

\* fetchData after its awaits: the response parsed, processData(data)
FetchResolve(r, data) ==
    /\ r \in fetches
    /\ fetches' = fetches \ {r}
    /\ processData(data)
    /\ nSuccess' = nSuccess + 1
    /\ maxResolved' = (IF r.id > maxResolved THEN r.id ELSE maxResolved)
    /\ lastOp' = OpR("fetchResolve", r.id, r.artist_mbid, data)
    /\ UNCHANGED <<explorerMounted, artistMBID, similarArtistsLimit,
                   currentTracks, issued, seedHue, reports, toasts>>
    /\ UNCHANGED <<widgetVars, routerVars>>

\* a faulty variant of FetchFail: the catch also clears the player's listens
FetchFail_ClearsTracks(r) ==
    /\ r \in fetches
    /\ fetches' = fetches \ {r}
    /\ similarArtistsList' = <<>>
    /\ currentTracks' = NoTracks
    /\ toasts' = RaiseToast(toasts, "error", "Search Error")
    /\ maxResolved' = (IF r.id > maxResolved THEN r.id ELSE maxResolved)
    /\ lastOp' = Op("fetchFail", r.id, r.artist_mbid)
    /\ UNCHANGED <<explorerMounted, artistMBID, similarArtistsLimit,
                   completeSimilarArtistsList, mainArtist, colors,
                   issued, nSuccess, seedHue>>
    /\ UNCHANGED <<widgetVars, panelVars, routerVars>>

\* a faulty variant of FetchFail: the catch leaves the displayed list
FetchFail_KeepsList(r) ==
    /\ r \in fetches
    /\ fetches' = fetches \ {r}
    /\ toasts' = RaiseToast(toasts, "error", "Search Error")
    /\ maxResolved' = (IF r.id > maxResolved THEN r.id ELSE maxResolved)
    /\ lastOp' = Op("fetchFail", r.id, r.artist_mbid)
    /\ UNCHANGED <<explorerMounted, artistMBID, similarArtistsLimit,
                   completeSimilarArtistsList, similarArtistsList, mainArtist,
                   colors, currentTracks, issued, nSuccess, seedHue>>
    /\ UNCHANGED <<widgetVars, panelVars, routerVars>>

\* fetchData's catch: fetch or response.json() rejected
FetchFail(r) ==
    /\ r \in fetches
    /\ fetches' = fetches \ {r}
    /\ similarArtistsList' = <<>>
    /\ toasts' = RaiseToast(toasts, "error", "Search Error")
    /\ maxResolved' = (IF r.id > maxResolved THEN r.id ELSE maxResolved)
    /\ lastOp' = Op("fetchFail", r.id, r.artist_mbid)
    /\ UNCHANGED <<explorerMounted, artistMBID, similarArtistsLimit,
                   completeSimilarArtistsList, mainArtist, colors,
                   currentTracks, issued, nSuccess, seedHue>>
    /\ UNCHANGED <<widgetVars, panelVars, routerVars>>

----------------------------------------------------------------------------
(* Panel: actions *)

\* getArtistInfo after its await: setArtistInfo of the lookup result with the
\* name of the artist the effect ran for; a panel unmounted since keeps nothing
LookupResolve(q, topTrack) ==
    /\ q \in lookups
    /\ lookups' = lookups \ {q}
    /\ artistInfo' = (IF PanelMounted /\ q.inst = panelInst
                      THEN [name |-> q.artist.name, topTrack |-> topTrack]
                      ELSE artistInfo)
    /\ lastOp' = Op("lookupResolve", q.id, q.artist.artist_mbid)
    /\ UNCHANGED <<panelInst, reports, toasts>>
    /\ UNCHANGED <<widgetVars, explorerVars, routerVars>>

\* a faulty variant of LookupFail: the catch also clears artistInfo
LookupFail_ResetInfo(q) ==
    /\ q \in lookups
    /\ lookups' = lookups \ {q}
    /\ artistInfo' = NoInfo
    /\ toasts' = RaiseToast(toasts, "error", "Search Error")
    /\ lastOp' = Op("lookupFail", q.id, q.artist.artist_mbid)
    /\ UNCHANGED <<panelInst, reports>>
    /\ UNCHANGED <<widgetVars, explorerVars, routerVars>>

\* getArtistInfo's catch
LookupFail(q) ==
    /\ q \in lookups
    /\ lookups' = lookups \ {q}
    /\ toasts' = RaiseToast(toasts, "error", "Search Error")
    /\ lastOp' = Op("lookupFail", q.id, q.artist.artist_mbid)
    /\ UNCHANGED <<artistInfo, panelInst, reports>>
    /\ UNCHANGED <<widgetVars, explorerVars, routerVars>>

\* onClick={handleTrackChange} of either card; onTrackChange is Data's
\* setCurrentTracks
HandleTrackChange(card) ==
    /\ CardsShown
    /\ IF Truthy(artistInfo.topTrack.recording_name)
       THEN /\ reports < MaxReports
            /\ reports' = reports + 1
            /\ currentTracks' = [defined |-> TRUE, value |-> <<NewTrack>>]
       ELSE UNCHANGED <<reports, currentTracks>>
    /\ lastOp' = Op("click", 0, card)
    /\ UNCHANGED <<explorerMounted, artistMBID, similarArtistsLimit,
                   completeSimilarArtistsList, similarArtistsList, mainArtist,
                   colors, fetches, issued, maxResolved, nSuccess, seedHue>>
    /\ UNCHANGED <<artistInfo, panelInst, lookups, toasts>>
    /\ UNCHANGED <<widgetVars, routerVars>>

----------------------------------------------------------------------------
(* getIndexRoutes: the route table, and a router navigating over it *)

\* a route without a loader property
NoLoader == "none"

\* one route object.  abs: the path is written with a leading "/"; segs: its
\* segments; lazyLoader: the loader the lazy function returns, if any
Route(abs, segs, index, Component, loader, lazyLoader, children) ==
    [abs |-> abs, segs |-> segs, index |-> index, Component |-> Component,
     loader |-> loader, lazyLoader |-> lazyLoader, children |-> children]

\* a route with a relative path and no children
Page(segs, Component, loader, lazyLoader) ==
    Route(FALSE, segs, FALSE, Component, loader, lazyLoader, <<>>)

\* the routes array getIndexRoutes returns
getIndexRoutes ==
    << Route(TRUE, <<>>, FALSE, "Outlet", NoLoader, NoLoader, <<
         Route(FALSE, <<>>, TRUE, "HomePage.default", "RouteLoader",
               NoLoader, <<>>),
         Page(<<"login">>, "Login.default", NoLoader, NoLoader),
         Page(<<"agree-to-terms">>, "GDPR.default", NoLoader, NoLoader),
         Page(<<"import-data">>, "ImportData.default", NoLoader, NoLoader),
         Page(<<"messybrainz">>, "MessyBrainz.default", NoLoader, NoLoader),
         Page(<<"lastfm-proxy">>, "LastfmProxy.default", NoLoader, NoLoader),
         Page(<<"listens-offline">>, "ListensOffline.default", NoLoader,
              NoLoader),
         Page(<<"musicbrainz-offline">>, "MusicBrainzOffline.default",
              NoLoader, NoLoader),
         Page(<<"search">>, "SearchResults.default", "RouteLoader", NoLoader),
         Page(<<"playlist", ":playlistID">>,
              "PlaylistPage.PlaylistPageWrapper", "RouteLoader", NoLoader),
         Page(<<"listening-now">>, "PlayingNowPage.PlayingNowPageWrapper",
              "RouteLoader", NoLoader),
         Route(TRUE, <<"statistics">>, FALSE, "UserDashboardLayout.default",
               NoLoader, NoLoader, <<
            Route(FALSE, <<>>, TRUE, "UserReports.StatisticsPage", NoLoader,
                  NoLoader, <<>>),
            Page(<<"top-artists">>, "UserEntityChart.default", NoLoader,
                 "UserEntityChart.StatisticsChartLoader"),
            Page(<<"top-albums">>, "UserEntityChart.default", NoLoader,
                 "UserEntityChart.StatisticsChartLoader"),
            Page(<<"top-tracks">>, "UserEntityChart.default", NoLoader,
                 "UserEntityChart.StatisticsChartLoader") >>),
         Route(TRUE, <<>>, FALSE, "UserFeedLayout.default", NoLoader,
               NoLoader, <<
            Route(TRUE, <<"feed">>, FALSE, "UserFeed.default", NoLoader,
                  NoLoader, <<>>),
            Route(TRUE, <<"recent">>, FALSE,
                  "RecentListens.RecentListensWrapper", NoLoader,
                  "RecentListens.RecentListensLoader", <<>>) >>) >>) >>

\* the path of a route under a parent path: a path written with a leading
\* "/" is taken as it stands, any other is appended to the parent's
JoinPaths(parentSegs, route) ==
    IF route.abs THEN route.segs ELSE parentSegs \o route.segs

\* a path as it is written in a URL
RECURSIVE PathString(_)
PathString(segs) ==
    IF segs = <<>> THEN "/"
    ELSE "/" \o Head(segs) \o PathString(Tail(segs))

\* a faulty variant of Flatten: the children of nested layouts are left out
RECURSIVE Flatten_OneLevel(_, _, _)
Flatten_OneLevel(routes, parentSegs, parents) ==
    UNION { LET r == routes[i]
                segs == JoinPaths(parentSegs, r)
                chain == Append(parents, r.Component)
            IN  {[segs |-> segs, chain |-> chain, leaf |-> r.children = <<>>,
                  route |-> [r EXCEPT !.children = <<>>]]}
                \cup (IF Len(parents) = 0
                      THEN Flatten_OneLevel(r.children, segs, chain)
                      ELSE {})
          : i \in DOMAIN routes }

\* the branches of a route tree: every route with the path it answers to
\* and the components of the layouts around it, outermost first
RECURSIVE Flatten(_, _, _)
Flatten(routes, parentSegs, parents) ==
    UNION { LET r == routes[i]
                segs == JoinPaths(parentSegs, r)
                chain == Append(parents, r.Component)
            IN  {[segs |-> segs, chain |-> chain, leaf |-> r.children = <<>>,
                  route |-> [r EXCEPT !.children = <<>>]]}
                \cup Flatten(r.children, segs, chain)
          : i \in DOMAIN routes }

Branches == Flatten(getIndexRoutes, <<>>, <<>>)

\* what a navigation renders: the branches that end in a page
PageBranches == {b \in Branches : b.leaf}

\* a route after its lazy function has resolved: the properties written on
\* the route stand, the lazy result supplies the rest
ResolveLazy(route) ==
    [Component |-> route.Component,
     loader |-> IF route.loader # NoLoader THEN route.loader
                ELSE route.lazyLoader]

NoBranch == [segs |-> <<"-">>, chain |-> <<>>, leaf |-> FALSE,
             route |-> Page(<<"-">>, "", NoLoader, NoLoader)]
NoPage == [Component |-> "", loader |-> NoLoader]

\* a navigation starts: the router has matched a branch and awaits its lazy
\* function; the page on screen stays
Navigate(b) ==
    /\ b \in PageBranches
    /\ pending' = b
    /\ lastOp' = Op("navigate", 0, PathString(b.segs))
    /\ UNCHANGED <<location, page>>
    /\ UNCHANGED <<widgetVars, explorerVars, panelVars, toasts>>

\* the lazy function of the matched route resolves: the navigation commits
LazyResolve ==
    /\ pending # NoBranch
    /\ location' = pending.segs
    /\ page' = ResolveLazy(pending.route)
    /\ pending' = NoBranch
    /\ lastOp' = Op("lazyResolve", 0, PathString(pending.segs))
    /\ UNCHANGED <<widgetVars, explorerVars, panelVars, toasts>>

----------------------------------------------------------------------------

Init ==
    /\ widgetMounted = FALSE
    /\ clearOnSelect \in BOOLEAN
    /\ newUser \in InitialValues
    /\ userSearchResults = <<>>
    /\ searches = {}
    /\ timers = {}
    /\ now = 0
    /\ dispatched = <<>>
    /\ selected = <<>>
    /\ afterSelect = FALSE
    /\ explorerMounted = FALSE
    /\ artistMBID = ARTIST_MBID
    /\ similarArtistsLimit = SIMILAR_ARTISTS_LIMIT_VALUE
    /\ completeSimilarArtistsList = <<>>
    /\ similarArtistsList = <<>>
    /\ mainArtist = NoArtist
    /\ seedHue \in Hues
    /\ colors = colorGenerator(seedHue)
    /\ currentTracks = NoTracks
    /\ fetches = {}
    /\ issued = <<>>
    /\ maxResolved = 0
    /\ nSuccess = 0
    /\ artistInfo = NoInfo
    /\ panelInst = 0
    /\ lookups = {}
    /\ reports = 0
    /\ pending = NoBranch
    /\ location = NoBranch.segs
    /\ page = NoPage
    /\ toasts = {}
    /\ lastOp = Op("init", 0, "")

\* a page showing the search widget, the Explorer not rendered
InitSearch == Init /\ seedHue = 0

\* the Explorer page, no search widget rendered
InitExplorer == Init /\ ~clearOnSelect /\ newUser = ""

NextSearch ==
    \/ MountWidget
    \/ \E v \in Texts : OnChange(v)
    \/ \E u \in UserNames : HandleResultClick(u)
    \/ \E s \in searches, users \in UserLists : SearchResolve(s, users)
    \/ \E s \in searches : SearchFail(s)
    \/ \E th \in timers : TimerExpired(th)
    \/ Tick
    \/ DismissToast

NextExplorer ==
    \/ MountExplorer
    \/ \E m \in MBIDs : SelectArtist(m)
    \/ \E l \in Limits : ChangeLimit(l)
    \/ \E r \in fetches : \E data \in Responses(r.artist_mbid) :
           FetchResolve(r, data)
    \/ \E r \in fetches : FetchFail(r)
    \/ \E q \in lookups : \E t \in TopTracks(q.artist.artist_mbid) :
           LookupResolve(q, t)
    \/ \E q \in lookups : LookupFail(q)
    \/ \E c \in Cards : HandleTrackChange(c)
    \/ DismissToast

\* the router alone, no page component modelled
InitRoutes == Init /\ seedHue = 0 /\ ~clearOnSelect /\ newUser = ""

NextRoutes ==
    \/ \E b \in PageBranches : Navigate(b)
    \/ LazyResolve

\* a page showing both: the widget clears on select and starts empty
InitPage == Init /\ seedHue = 0 /\ clearOnSelect /\ newUser = ""

\* a step of a page showing both components, within the page's request budget
WithinRequests(step) ==
    step /\ Len(dispatched') + Len(issued') <= MaxRequests

\* a page showing the search widget and the Explorer side by side: the
\* steps of the two interleave and their notifications share one container
NextPage ==
    \/ WithinRequests(MountWidget)
    \/ \E v \in Texts : WithinRequests(OnChange(v))
    \/ \E u \in UserNames : WithinRequests(HandleResultClick(u))
    \/ \E s \in searches, users \in UserLists :
           WithinRequests(SearchResolve(s, users))
    \/ \E s \in searches : WithinRequests(SearchFail(s))
    \/ \E th \in timers : WithinRequests(TimerExpired(th))
    \/ WithinRequests(Tick)
    \/ WithinRequests(MountExplorer)
    \/ \E m \in MBIDs : WithinRequests(SelectArtist(m))
    \/ \E l \in Limits : WithinRequests(ChangeLimit(l))
    \/ \E r \in fetches : \E data \in Responses(r.artist_mbid) :
           WithinRequests(FetchResolve(r, data))
    \/ \E r \in fetches : WithinRequests(FetchFail(r))
    \/ \E q \in lookups : \E t \in TopTracks(q.artist.artist_mbid) :
           WithinRequests(LookupResolve(q, t))
    \/ \E q \in lookups : WithinRequests(LookupFail(q))
    \/ \E c \in Cards : WithinRequests(HandleTrackChange(c))
    \/ WithinRequests(DismissToast)

\* the search widget alone
SpecSearch == InitSearch /\ [][NextSearch]_vars

\* the Explorer with its panel
SpecExplorer == InitExplorer /\ [][NextExplorer]_vars

\* the widget and the Explorer on one page
SpecPage == InitPage /\ [][NextPage]_vars

\* navigation over the route table
SpecRoutes == InitRoutes /\ [][NextRoutes]_vars

----------------------------------------------------------------------------
(* Claims about UserSearch, checked under SpecSearch *)

\* C1: at most one search request is dispatched within any 300 ms window, and
\* a dispatched request carries the value the input showed when it was sent.
\* The code sends one request per change of the text, however close in time.
C1_ThrottledDispatch ==
    /\ \A i, j \in DOMAIN dispatched :
           i < j => dispatched[j].at - dispatched[i].at >= THROTTLE_WAIT
    /\ \A i \in DOMAIN dispatched : dispatched[i].query = dispatched[i].typed

\* C3: a selection calls onSelectUser exactly once with the chosen name,
\* empties the result list, and sets the text to "" with clearOnSelect and to
\* the chosen name without it.
C3_SelectionEffect ==
    [][lastOp'.op = "select" =>
          /\ selected' = Append(selected, lastOp'.text)
          /\ userSearchResults' = <<>>
          /\ newUser' = (IF clearOnSelect THEN "" ELSE lastOp'.text)]_vars

\* C3 witness: a name was selected without clearOnSelect and became the text
C3_Witness ==
    /\ lastOp.op = "select"
    /\ ~clearOnSelect
    /\ newUser = lastOp.text
    /\ selected = <<lastOp.text>>
    /\ userSearchResults = <<>>

\* C4 as stated: whenever the text becomes empty, no request is issued and
\* the result list is left as it was.
C4_EmptyTextFrame ==
    [][(newUser # "" /\ newUser' = "") =>
          /\ userSearchResults' = userSearchResults
          /\ dispatched' = dispatched
          /\ searches' = searches]_vars

\* C4 amended: when the text becomes empty by an input change, no request is
\* issued and the result list is left as it was; when it becomes empty by a
\* selection with clearOnSelect, no request is issued and the list is emptied.
C4_EmptyTypedTextFrame ==
    [][(newUser # "" /\ newUser' = "") =>
          /\ dispatched' = dispatched
          /\ searches' = searches
          /\ lastOp'.op \in {"change", "select"}
          /\ lastOp'.op = "change" => userSearchResults' = userSearchResults
          /\ lastOp'.op = "select" => userSearchResults' = <<>>]_vars

\* C4 witness: the text was emptied by typing while suggestions were shown
C4_Witness ==
    /\ lastOp.op = "change"
    /\ newUser = ""
    /\ userSearchResults # <<>>

----------------------------------------------------------------------------
(* Claims about Data and Panel, checked under SpecExplorer *)

\* the places of the dataset-tagged entries of a response
DatasetPlaces(resp) == {i \in DOMAIN resp : resp[i].type = "dataset"}

\* the k-th smallest of a set of places (0 when there are fewer than k)
RECURSIVE KthPlace(_, _)
KthPlace(places, k) ==
    IF places = {} THEN 0
    ELSE LET least == CHOOSE i \in places : \A j \in places : i <= j
         IN  IF k = 1 THEN least ELSE KthPlace(places \ {least}, k - 1)

\* the first row of the first dataset entry of a response (undefined, the
\* value of artistsData[0]?.data[0], when that entry has no row)
ExpectedMain(resp) ==
    LET first == resp[KthPlace(DatasetPlaces(resp), 1)].data
    IN  IF first = <<>> THEN NoArtist ELSE first[1]

\* the data of the second dataset entry of a response, or the empty list
ExpectedComplete(resp) ==
    LET second == KthPlace(DatasetPlaces(resp), 2)
    IN  IF second = 0 THEN <<>> ELSE resp[second].data

\* the step processed a similarity response
ResolveStep == lastOp'.op = "fetchResolve"

\* the tetrad-rotation partner: a quarter turn of hue, saturation and value kept
T(c) == [h |-> (c.h + 90) % 360, s |-> c.s, v |-> c.v]

RECURSIVE TPower(_, _)
TPower(c, n) == IF n = 0 THEN c ELSE TPower(T(c), n - 1)

\* C2: responses take effect in the order they complete. A response with
\* datasets that completes after a later-issued request was settled still sets
\* the main artist and the complete list to its own, while artistMBID stays
\* that of the last request issued; and a request leaves the set in flight
\* only by being settled, never by another selection.
C2_CompletionOrder ==
    [][/\ (ResolveStep /\ lastOp'.id < maxResolved
               /\ DatasetPlaces(lastOp'.resp) # {})
           => /\ mainArtist' = ExpectedMain(lastOp'.resp)
              /\ completeSimilarArtistsList' = ExpectedComplete(lastOp'.resp)
              /\ artistMBID' = issued[Len(issued)]
       /\ \A r \in fetches :
              r \notin fetches'
                  => /\ lastOp'.op \in {"fetchResolve", "fetchFail"}
                     /\ lastOp'.id = r.id
                     /\ fetches' = fetches \ {r}]_vars

\* C2 witness: the request for mbid-b was answered first, then the earlier
\* request for the default artist: the graph shows the default artist while
\* mbid-b is selected
C2_Witness ==
    /\ lastOp.op = "fetchResolve"
    /\ lastOp.id = 1
    /\ maxResolved = 2
    /\ nSuccess = 2
    /\ artistMBID = "mbid-b"
    /\ mainArtist = Artist(ARTIST_MBID)
    /\ completeSimilarArtistsList # <<>>

\* C5: processing a response with a dataset entry sets the main artist to the
\* first row of the first dataset entry and the complete list to the data of
\* the second dataset entry, or to the empty list without one; markup entries
\* are skipped wherever they stand.
C5_DatasetResponse ==
    [][(ResolveStep /\ DatasetPlaces(lastOp'.resp) # {})
          => /\ mainArtist' = ExpectedMain(lastOp'.resp)
             /\ completeSimilarArtistsList' = ExpectedComplete(lastOp'.resp)
             /\ mainArtist' # Markup.data[1]
             /\ \A i \in DOMAIN completeSimilarArtistsList' :
                    completeSimilarArtistsList'[i] # Markup.data[1]]_vars

\* C5 witness: a response with markup entries before and between its two
\* dataset entries was processed
C5_Witness ==
    /\ lastOp.op = "fetchResolve"
    /\ Len(lastOp.resp) = 4
    /\ lastOp.resp[1].type = "markup"
    /\ mainArtist = lastOp.resp[2].data[1]
    /\ completeSimilarArtistsList = lastOp.resp[4].data
    /\ completeSimilarArtistsList # <<>>

\* C6: processing a response without dataset entries keeps the main artist,
\* the complete list and the displayed list, and raises no notification.
C6_NoDatasetFrame ==
    [][(ResolveStep /\ DatasetPlaces(lastOp'.resp) = {})
          => /\ mainArtist' = mainArtist
             /\ completeSimilarArtistsList' = completeSimilarArtistsList
             /\ similarArtistsList' = similarArtistsList
             /\ toasts' = toasts]_vars

\* C6 witness: a markup-only response was processed while an earlier
\* response's artist and list are shown
C6_Witness ==
    /\ lastOp.op = "fetchResolve"
    /\ lastOp.resp = <<Markup>>
    /\ mainArtist # NoArtist
    /\ similarArtistsList # <<>>
    /\ toasts = {}

\* C7: every processed response turns the pair (c0, c1) into (c1, T(c1)), no
\* other step changes the pair, and so after n processed responses the pair
\* is (T^n(c), T^(n+1)(c)) for the colour c drawn at construction.
C7_ColorRecurrence ==
    /\ [](colors = <<TPower(Color(seedHue), nSuccess),
                     TPower(Color(seedHue), nSuccess + 1)>>)
    /\ [][IF ResolveStep
          THEN colors' = <<colors[2], T(colors[2])>>
          ELSE colors' = colors]_vars

\* C7 witness: one request failed and the other was processed, across the
\* colour wheel's wrap: the pair drawn as (300, 30) stands at (30, 120)
C7_Witness ==
    /\ lastOp.op = "fetchFail"
    /\ nSuccess = 1
    /\ seedHue = 300
    /\ colors[1].h = 30
    /\ colors[2].h = 120

\* C8: a change of the limit sets the displayed list to the first `limit`
\* entries of the complete list, sends no request, and leaves the complete
\* list, the main artist and the colour pair as they were.
C8_LimitReslice ==
    [][lastOp'.op = "changeLimit"
          => /\ Len(similarArtistsList') =
                    (IF similarArtistsLimit' < Len(completeSimilarArtistsList)
                     THEN similarArtistsLimit'
                     ELSE Len(completeSimilarArtistsList))
             /\ \A i \in DOMAIN similarArtistsList' :
                    similarArtistsList'[i] = completeSimilarArtistsList[i]
             /\ fetches' = fetches
             /\ issued' = issued
             /\ completeSimilarArtistsList' = completeSimilarArtistsList
             /\ mainArtist' = mainArtist
             /\ colors' = colors]_vars

\* C8 witness: the limit was lowered below the length of the complete list
C8_Witness ==
    /\ lastOp.op = "changeLimit"
    /\ similarArtistsLimit = 1
    /\ Len(completeSimilarArtistsList) = 2
    /\ similarArtistsList = <<completeSimilarArtistsList[1]>>

\* C9: a failed similarity fetch empties the displayed list and leaves exactly
\* one notification, titled "Search Error" with id "error", also when such a
\* notification was already showing.
C9_FetchFailure ==
    [][lastOp'.op = "fetchFail"
          => /\ similarArtistsList' = <<>>
             /\ Cardinality(toasts') = 1
             /\ \A t \in toasts' :
                    t.toastId = "error" /\ t.title = "Search Error"]_vars

\* C9 witness: the second of two fetches failed while the notification of
\* the first failure was showing, and one notification stands for both
C9_Witness ==
    /\ lastOp.op = "fetchFail"
    /\ lastOp.id = 2
    /\ nSuccess = 0
    /\ similarArtistsList = <<>>
    /\ toasts = {[toastId |-> "error", title |-> "Search Error", calls |-> 2]}

\* C10: a click on either card with a named top track calls onTrackChange
\* once, with a list of one Listen: listened_at 0, the input artist's name,
\* and the top track's recording name, release name, release mbid and
\* recording mbid; a click with no recording name calls it not at all.
C10_CardClick ==
    [][lastOp'.op = "click"
          => IF artistInfo.topTrack.recording_name \notin {Undefined, ""}
             THEN /\ reports' = reports + 1
                  /\ currentTracks'.defined
                  /\ Len(currentTracks'.value) = 1
                  /\ currentTracks'.value[1].listened_at = 0
                  /\ currentTracks'.value[1].track_metadata =
                         [artist_name |-> mainArtist.name,
                          track_name |-> artistInfo.topTrack.recording_name,
                          release_name |-> artistInfo.topTrack.release_name,
                          release_mbid |-> artistInfo.topTrack.release_mbid,
                          recording_mbid |->
                              artistInfo.topTrack.recording_mbid]
             ELSE /\ reports' = reports
                  /\ currentTracks' = currentTracks]_vars

\* C10 witness: the Top Album card was clicked and the player holds the one
\* Listen built from the top track
C10_Witness ==
    /\ lastOp.op = "click"
    /\ lastOp.text = "artist-top-album"
    /\ reports = 1
    /\ Len(PlayerListens) = 1
    /\ PlayerListens[1].track_metadata.track_name =
           artistInfo.topTrack.recording_name

----------------------------------------------------------------------------
(* Claims about the route table, checked under SpecRoutes *)

\* the paths the specification lists
ListedPaths ==
    {"/", "/login/", "/agree-to-terms/", "/import-data/", "/messybrainz/",
     "/lastfm-proxy/", "/listens-offline/", "/musicbrainz-offline/",
     "/search/", "/playlist/:playlistID/", "/listening-now/",
     "/statistics/", "/statistics/top-artists/", "/statistics/top-albums/",
     "/statistics/top-tracks/", "/feed/", "/recent/"}

StatisticsCharts ==
    {"/statistics/top-artists/", "/statistics/top-albums/",
     "/statistics/top-tracks/"}

\* the entries of the routes array itself that answer to "/"
TopLevelRoots ==
    {i \in DOMAIN getIndexRoutes : JoinPaths(<<>>, getIndexRoutes[i]) = <<>>}

\* the table answers to the listed paths and no other, and the three chart
\* routes of /statistics/ resolve to one component and one loader, on the
\* table and on the page a navigation to any of them puts on screen
PathsAndCharts ==
    /\ {PathString(b.segs) : b \in Branches} = ListedPaths
    /\ location # NoBranch.segs => PathString(location) \in ListedPaths
    /\ \A b \in Branches :
           PathString(b.segs) \in StatisticsCharts
               => ResolveLazy(b.route) =
                      [Component |-> "UserEntityChart.default",
                       loader |-> "UserEntityChart.StatisticsChartLoader"]
    /\ (location # NoBranch.segs /\ PathString(location) \in StatisticsCharts)
           => page = [Component |-> "UserEntityChart.default",
                      loader |-> "UserEntityChart.StatisticsChartLoader"]

\* C12 as stated: the table holds exactly the listed paths, two entries of
\* the routes array itself answer to "/" (the main layout and the feed
\* layout), and the three chart routes share component and loader.  The
\* routes array has one entry; the feed layout is one of its children.
C12_TwoTopLevelRoots ==
    /\ PathsAndCharts
    /\ Cardinality(TopLevelRoots) = 2

\* C12, amended: the table holds exactly the listed paths; the routes array
\* has one entry, the main layout at "/", and the feed layout is a child of
\* it that answers to "/" as well and wraps /feed/ and /recent/; the three
\* chart routes share component and loader.
C12_NestedFeedLayout ==
    /\ PathsAndCharts
    /\ Len(getIndexRoutes) = 1
    /\ TopLevelRoots = {1}
    /\ \E b \in Branches :
           b.segs = <<>> /\ b.chain = <<"Outlet", "UserFeedLayout.default">>
    /\ \A b \in Branches :
           PathString(b.segs) \in {"/feed/", "/recent/"}
               => SubSeq(b.chain, 1, 2) = <<"Outlet", "UserFeedLayout.default">>
    /\ PathString(location) \in {"/feed/", "/recent/"} =>
           page.Component \in {"UserFeed.default",
                               "RecentListens.RecentListensWrapper"}

\* C12 witness: the chart of top tracks is on screen with the shared loader
\* while a navigation to /recent/ is under way
C12_Witness ==
    /\ PathString(location) = "/statistics/top-tracks/"
    /\ page.loader = "UserEntityChart.StatisticsChartLoader"
    /\ pending # NoBranch
    /\ PathString(pending.segs) = "/recent/"
    /\ pending.chain = <<"Outlet", "UserFeedLayout.default",
                         "RecentListens.RecentListensWrapper">>

----------------------------------------------------------------------------
(* Claims about the Panel, checked under SpecExplorer *)

\* the step resolved a lookup that the Panel instance now mounted had issued
ResolvedOwnLookup ==
    /\ lastOp'.op = "lookupResolve"
    /\ \E q \in lookups :
           q.id = lastOp'.id /\ q.inst = panelInst' /\ q \notin lookups'

\* C11 as stated: the Panel renders nothing until a lookup of its own has
\* resolved successfully, whatever lookups failed before, and once it renders
\* it renders ever after.  Data drops the Panel when a response leaves it with
\* no main artist, and the Panel rendered for the next main artist starts with
\* no artist info again.
C11_InfoNeverAbsent ==
    /\ ~PanelRenders
    /\ [][/\ (~PanelRenders /\ PanelRenders') => ResolvedOwnLookup
          /\ PanelRenders => PanelRenders']_vars

\* C11, amended: the Panel renders nothing until a lookup of its own has
\* resolved successfully, whatever lookups failed before, and its artist info
\* is not reset for as long as that Panel stays mounted.
C11_InfoKeptWhileMounted ==
    /\ ~PanelRenders
    /\ [][/\ (~PanelRenders /\ PanelRenders') => ResolvedOwnLookup
          /\ (PanelRenders /\ PanelMounted' /\ panelInst' = panelInst)
                 => PanelRenders']_vars

\* C11 witness: a lookup failed after an earlier one of the same Panel had
\* succeeded, and the Panel still renders
C11_Witness ==
    /\ lastOp.op = "lookupFail"
    /\ PanelRenders
    /\ panelInst = 1
    /\ nSuccess = 2

----------------------------------------------------------------------------
(* More claims about UserSearch, checked under SpecSearch *)

\* C14: a search that succeeds replaces the whole result list with the users
\* of its response; a search that fails leaves the result list and the input
\* text as they were and leaves a notification titled "Error" with id "error".
C14_SearchOutcome ==
    [][/\ lastOp'.op = "searchResolve"
              => /\ userSearchResults' = lastOp'.resp
                 /\ newUser' = newUser
                 /\ toasts' = toasts
       /\ lastOp'.op = "searchFail"
              => /\ userSearchResults' = userSearchResults
                 /\ newUser' = newUser
                 /\ \E t \in toasts' : t.toastId = "error" /\ t.title = "Error"
                 /\ Cardinality(toasts') = 1]_vars

\* C14 witness: a search failed while suggestions of an earlier response
\* were listed, and the list still shows them under the notification
C14_Witness ==
    /\ lastOp.op = "searchFail"
    /\ Len(userSearchResults) = 2
    /\ newUser # ""
    /\ toasts = {[toastId |-> "error", title |-> "Error", calls |-> 1]}

----------------------------------------------------------------------------
(* More claims about the Explorer, checked under SpecExplorer *)

\* C16: the listens handed to the player are empty until the Panel first
\* reports a track list, are the list of the latest report afterwards, and
\* change in no step other than a report: not on selecting an artist, on a
\* limit change, on a similarity or lookup response, or on any failure.
C16_PlayerListens ==
    /\ reports = 0 => PlayerListens = <<>>
    /\ [][/\ lastOp'.op # "click" => PlayerListens' = PlayerListens
          /\ reports' = reports => PlayerListens' = PlayerListens
          /\ reports' # reports
                 => /\ lastOp'.op = "click"
                    /\ PlayerListens' = <<NewTrack>>]_vars

\* C16 witness: a similarity fetch failed after the Panel had reported a
\* track, and the player still holds that track
C16_Witness ==
    /\ lastOp.op = "fetchFail"
    /\ reports = 1
    /\ Len(PlayerListens) = 1
    /\ similarArtistsList = <<>>

\* C17: the Explorer sends one similarity request when it mounts and one in
\* every step that changes the selected artist identifier, for the new
\* identifier, and none in any other step: not on a limit change, a processed
\* response, a rotation of the colors, a selection of the current identifier,
\* or a failure.
C17_OneRequestPerChange ==
    [][IF lastOp'.op = "mountExplorer" \/ artistMBID' # artistMBID
       THEN /\ Len(issued') = Len(issued) + 1
            /\ issued'[Len(issued')] = artistMBID'
            /\ fetches' = fetches \cup
                   {[id |-> Len(issued'), artist_mbid |-> artistMBID']}
       ELSE /\ issued' = issued
            /\ fetches' \subseteq fetches]_vars

\* C17 witness: the only request failed, the current identifier was selected
\* again, and no request is in flight
C17_Witness ==
    /\ lastOp.op = "selectArtist"
    /\ lastOp.text = artistMBID
    /\ Len(issued) = 1
    /\ fetches = {}
    /\ nSuccess = 0
    /\ toasts # {}

\* C18: in every state of the Explorer the second theme colour has the hue of
\* the first plus a quarter turn, modulo 360, and its saturation and value,
\* whatever successes, responses without datasets, failures and limit changes
\* came before.
C18_TetradPair ==
    /\ colors[2].h = (colors[1].h + 90) % 360
    /\ colors[2].s = colors[1].s
    /\ colors[2].v = colors[1].v
    /\ colors[1].h \in 0..359

\* C18 witness: two responses have rotated the colours, the hue has wrapped
\* past 360, and the limit was changed after
C18_Witness ==
    /\ lastOp.op = "changeLimit"
    /\ nSuccess = 2
    /\ seedHue = 300
    /\ colors[1].h = 120
    /\ colors[2].h = 210

\* the first n entries of a list, or all of it when it is shorter
FirstEntries(list, n) ==
    [i \in 1..(IF n < Len(list) THEN n ELSE Len(list)) |-> list[i]]

\* C19: in every state of the Explorer the displayed list is the first
\* `limit` entries of the complete list, after any successes, failures and
\* limit changes (the re-slice effect runs within the step that changes the
\* complete list or the limit, so none is pending between steps); a failed
\* fetch followed by a limit change brings back no entry of an earlier
\* response.  The catch of fetchData empties the displayed list and leaves
\* the complete list, and the next limit change slices the stale list again.
C19_DisplayedIsPrefix ==
    /\ similarArtistsList =
           FirstEntries(completeSimilarArtistsList, similarArtistsLimit)
    /\ [][(lastOp.op = "fetchFail" /\ lastOp'.op = "changeLimit")
              => similarArtistsList' = <<>>]_vars

\* C20: every Listen the Panel reports carries, as artist_name, the name of
\* the artist whose info lookup produced the top track it copies from, for
\* every interleaving of artist changes, lookups in flight, resolved out of
\* order or failed, and clicks.  handleTrackChange reads the name from the
\* artist prop of the current render and the track from artistInfo, which is
\* the previous artist's until the lookup for the new one resolves.
C20_ListenArtistMatchesTrack ==
    [][reports' # reports
          => /\ Len(PlayerListens') = 1
             /\ PlayerListens'[1].track_metadata.track_name =
                    artistInfo.topTrack.recording_name
             /\ PlayerListens'[1].track_metadata.artist_name =
                    artistInfo.name]_vars

----------------------------------------------------------------------------
(* Claims about failures on a page showing both components, checked under
   SpecPage *)

Failures == {"searchFail", "fetchFail", "lookupFail"}

\* the step called toast.error once with id "error": a notification with
\* that id shows after it, new or standing for one call more than before
ToastRaised ==
    /\ \E t \in toasts' : t.toastId = "error"
    /\ \/ toasts = {} /\ \A t \in toasts' : t.calls = 1
       \/ \E t \in toasts : \E u \in toasts' : u.calls = t.calls + 1

\* C13 as stated: a failure of each of the three kinds of request is caught
\* by the component that sent it, resets that component's view to its empty
\* default (the result list empty, the displayed similar list empty, the
\* panel's artist info absent) and raises a toast.  Only fetchData's catch
\* resets anything.
C13_FailureResetsView ==
    [][/\ lastOp'.op \in Failures => ToastRaised
       /\ lastOp'.op = "searchFail" => userSearchResults' = <<>>
       /\ lastOp'.op = "fetchFail" => similarArtistsList' = <<>>
       /\ lastOp'.op = "lookupFail" => artistInfo' = NoInfo]_vars

\* C13, amended: a failure of each of the three kinds is caught by the
\* component that sent it and raises a toast; a failed similarity fetch
\* empties the displayed list, a failed user search leaves the result list
\* as it was and a failed lookup leaves the panel's artist info as it was.
C13_FailureCaught ==
    [][/\ lastOp'.op \in Failures => ToastRaised
       /\ lastOp'.op = "searchFail"
              => /\ userSearchResults' = userSearchResults
                 /\ UNCHANGED <<explorerVars, panelVars>>
       /\ lastOp'.op = "fetchFail"
              => /\ similarArtistsList' = <<>>
                 /\ UNCHANGED <<widgetVars, panelVars>>
       /\ lastOp'.op = "lookupFail"
              => /\ artistInfo' = artistInfo
                 /\ UNCHANGED <<widgetVars, explorerVars>>]_vars

\* C13 witness: with the widget showing two suggestions, the panel's lookup
\* failed after the similarity response had been processed; the suggestions
\* and the similar artists are still shown
C13_Witness ==
    /\ lastOp.op = "lookupFail"
    /\ Len(userSearchResults) = 2
    /\ Len(similarArtistsList) = 2
    /\ artistInfo = NoInfo
    /\ PanelMounted
    /\ toasts # {}

\* C15: in every state at most one notification with id "error" shows,
\* whatever failures of the widget's search, the Explorer's fetch and the
\* Panel's lookup interleave; a failure of one component while another's
\* notification shows is taken into that notification, not stacked on it.
C15_OneErrorToast ==
    /\ Cardinality({t \in toasts : t.toastId = "error"}) <= 1
    /\ [][(lastOp'.op \in Failures /\ toasts # {})
              => /\ Cardinality(toasts') = 1
                 /\ \E t \in toasts : \E u \in toasts' :
                        u.toastId = t.toastId /\ u.calls = t.calls + 1]_vars

\* C15 witness: the widget's search failed, then the Panel's lookup failed
\* while that notification was showing, and one notification stands for both
C15_Witness ==
    /\ lastOp.op = "lookupFail"
    /\ Len(dispatched) = 1
    /\ Len(issued) = 1
    /\ toasts = {[toastId |-> "error", title |-> "Error", calls |-> 2]}

----------------------------------------------------------------------------
(* A claim about the time after a selection, checked under SpecSearch *)

\* C21: from a selection until the user next changes the text, the result
\* list stays empty and no search request is dispatched, with clearOnSelect
\* or without, also when a response to a request sent before the selection
\* arrives after it.  Without clearOnSelect the selection sets the text to
\* the chosen name and the effect on [newUser] sends a search for it; and
\* searchUsers sets the list from any response that arrives, whenever it was
\* asked for.
C21_QuietAfterSelect ==
    /\ afterSelect => userSearchResults = <<>>
    /\ [][afterSelect' => dispatched' = dispatched]_vars

====
